---- MODULE Spec2Model ----
(***************************************************************************)
(* The incremental collection synchronizer of discogs_dashboard_v0:        *)
(* incremental_update of collection_update.py, with the client calls of    *)
(* collection_dump.py it makes (safe_request, get_custom_fields_map,       *)
(* get_instance_fields) and the cache files behind save_cache/load_cache.  *)
(*                                                                         *)
(* One run of incremental_update is a sequence of steps, one per HTTP      *)
(* response: the code between two requests is part of the step of the      *)
(* response that precedes it.  The remote collection is newest-first and   *)
(* gains items at its newest end, also in the middle of a run.             *)
(***************************************************************************)
EXTENDS Integers, Sequences, FiniteSets, TLC

\* ------------------------------------------------------------- bounds
MaxFeed == 3        \* items the remote collection grows to
MaxPerPage == 2     \* per_page is drawn from 1..MaxPerPage
MaxPages == 2       \* max_pages is drawn from 1..MaxPages
MaxRuns == 2        \* runs of incremental_update in one behaviour
MaxFaults == 1      \* 429s, error answers and failed writes in one behaviour
MaxRetries == 3     \* 429 responses one safe_request call receives at most

\* ------------------------------------------------- program constants
DefaultRetryAfter == 60
DefaultPriceId == 4
DefaultSellerId == 5
DefaultBandCountryId == 6

\* ---------------------------------------------------------- encodings
Null == 0                    \* None / NaN in a record or a frame
NoHeader == -1               \* a response without Retry-After header
RetryAfterValues == {NoHeader, 1, 2}

\* An instance id as a cell of the frame: the text "n" or the number n.
StrId(n) == [k |-> "str", v |-> n]
IntId(n) == [k |-> "int", v |-> n]

\* The cell of a row whose record has no "instance_id" key: the frame has
\* no such column, or NaN there once rows that have the key are merged in.
NanId == [k |-> "nan", v |-> 0]

\* the number n as a float cell: the text of n.0 is "n.0", not "n"
FloatId(n) == [k |-> "float", v |-> n]

\* str(x) and Series.astype(str) on an instance-id cell
Str(c) == [k |-> IF c.k = "float" THEN "str.0" ELSE "str", v |-> c.v]

\* the requests the run sends (URL and query parameters)
NoReq == [ep |-> "none", inst |-> 0, per_page |-> 0, page |-> 0]
FieldsReq == [ep |-> "fields", inst |-> 0, per_page |-> 0, page |-> 0]
ListReq(pp, pg) == [ep |-> "releases", inst |-> 0, per_page |-> pp, page |-> pg]
InstReq(n) == [ep |-> "instance", inst |-> n, per_page |-> 0, page |-> 0]

\* a JSON body: the keys the callers read
EmptyJson == [releases |-> <<>>, fields |-> <<>>, notes |-> <<>>]

VARIABLES
    feed,            \* the remote collection, newest first (instance ids)
    parquet,         \* collection_cache.parquet: [state, rows]
    csv,             \* collection_cache.csv: [state, rows]
    pc,              \* where the run is: idle, fields, list, inst, done, raised
    per_page, max_pages, page,
    df_cache, known_instances, new_records,
    releases, idx,   \* the page being iterated and the position in it
    price_id, seller_id, bandcountry_id,
    req,             \* the request safe_request is (re)sending
    fresh,           \* TRUE until the first response of the current call
    http,            \* requests.get and time.sleep calls of the latest call
    resps,           \* the responses received by the latest call
    ret,             \* what the latest safe_request call returned
    \* ---- history of the current run
    grown,           \* TRUE once an item was added since the run started
    parquet0, csv0,  \* the cache files when the run started
    loaded,          \* what load_cache returned
    listed,          \* pages passed to fetch_latest_releases, in order
    fetched,         \* the items of the listing pages received, in order
    wrote,           \* "none", "parquet" or "csv": what save_cache wrote
    stop,            \* the known instance id the run stopped at, or 0
    prev,            \* TRUE in a run that follows a run that returned, with
                     \* no item added since that run started
    runs,            \* runs started so far
    faults,          \* 429s, error answers and failed writes so far
    cap,             \* the bounds of this behaviour: [feed, runs, faults]
    dump             \* incremental_update of collection_dump.py called with
                     \* the same arguments on the same files: its locals

vars == <<feed, parquet, csv, pc, per_page, max_pages, page, df_cache,
          known_instances, new_records, releases, idx, price_id, seller_id,
          bandcountry_id, req, fresh, http, resps, ret, grown, parquet0, csv0,
          loaded, listed, fetched, wrote, stop, prev, runs, faults, cap, dump>>

\* ------------------------------------------------------ the remote side
Min(a, b) == IF a < b THEN a ELSE b

\* basic_information.formats of the release of instance n: each format has
\* its descriptions and its free text ("" when it has none).
Formats(n) ==
    CASE n = 1 -> << [descriptions |-> <<"LP", "Reissue">>, text |-> ""] >>
      [] n = 2 -> << [descriptions |-> <<"LP">>, text |-> "Red"],
                     [descriptions |-> <<"Limited Edition Repress">>,
                      text |-> ""] >>
      [] n = 3 -> <<>>
      [] OTHER -> << [descriptions |-> <<"Album">>, text |-> "Reissue"] >>

\* One item of the listing, as the callers read it.
Item(n) == [instance_id |-> IntId(n), formats |-> Formats(n)]

\* One page of the listing, sorted by date added, descending.
Page(f, pp, pg) ==
    LET lo == (pg - 1) * pp + 1
        hi == Min(pg * pp, Len(f))
    IN  [i \in 1..(IF hi >= lo THEN hi - lo + 1 ELSE 0) |->
            Item(f[lo + i - 1])]

\* The field-definition lists an account can have.
FieldLists ==
    { << [name |-> "PricePaid", id |-> 7], [name |-> "Seller", id |-> 8] >> }

\* The notes of an instance: a value under every field identifier.
RemoteNotes == [f \in 1..6 |-> [field_id |-> f + 3, value |-> f + 13]]

\* ------------------------------------------------------------ the files
AbsentFile == [state |-> "absent", rows |-> <<>>]
CorruptFile == [state |-> "corrupt", rows |-> <<>>]

\* pd.read_csv infers the type of the instance_id column: digits are
\* integers, and floats when some cell of the column is empty.
ReadCsv(rows) ==
    LET holes == \E i \in 1..Len(rows) : rows[i].instance_id.k = "nan"
    IN  [i \in 1..Len(rows) |->
            IF rows[i].instance_id.k = "nan" THEN rows[i]
            ELSE [rows[i] EXCEPT !.instance_id =
                      IF holes THEN FloatId(@.v) ELSE IntId(@.v)]]

\* load_cache raises: read_parquet failed and read_csv, called in the except
\* branch, fails too
LoadRaises(pq, cs) == pq.state = "corrupt" /\ cs.state = "corrupt"

load_cache(pq, cs) ==
    IF pq.state # "absent"
    THEN IF pq.state = "ok" THEN pq.rows
         ELSE IF cs.state # "absent" THEN ReadCsv(cs.rows) ELSE <<>>
    ELSE <<>>

\* (the csv written in every case, not only when to_parquet raised)
save_cacheBoth(df, ok, pq, cs) ==
    IF ok THEN [parquet |-> [state |-> "ok", rows |-> df],
                csv |-> [state |-> "ok", rows |-> df], wrote |-> "parquet"]
    ELSE [parquet |-> pq, csv |-> [state |-> "ok", rows |-> df],
          wrote |-> "csv"]

\* save_cache: to_parquet, and to_csv when to_parquet raised (ok = FALSE).
\* A to_parquet that raises leaves the parquet file as it was.
save_cache(df, ok, pq, cs) ==
    IF ok THEN [parquet |-> [state |-> "ok", rows |-> df], csv |-> cs,
                wrote |-> "parquet"]
    ELSE [parquet |-> pq, csv |-> [state |-> "ok", rows |-> df],
          wrote |-> "csv"]

\* ------------------------------------------------- incremental_update
\* (the set without astype(str): the cells as they are in the frame)
KnownInstancesRaw(df) ==
    IF df = <<>> THEN {}
    ELSE { df[i].instance_id :
             i \in {j \in 1..Len(df) : df[j].instance_id.k # "nan"} }

KnownInstances(df) ==
    IF df = <<>> THEN {}
    ELSE { Str(df[i].instance_id) :
             i \in {j \in 1..Len(df) : df[j].instance_id.k # "nan"} }

IsKnown(inst_id, known) == inst_id \in known

\* (the loop bound off by one, either way)
LoopCondStrict(pg, mp) == pg < mp
LoopCondOffByOne(pg, mp) == pg <= mp + 1

LoopCond(pg, mp) == pg <= mp

\* (the new records appended after the cache instead of before it)
ConcatAppend(new, cache) == cache \o new

\* pd.concat([df_new, df_cache], ignore_index=True)
Concat(new, cache) == new \o cache

\* dict.get(name, default) on the mapping get_custom_fields_map builds
FieldMapGet(fields, name, default) ==
    LET hits == {i \in 1..Len(fields) : fields[i].name = name}
    IN  IF hits = {} THEN default
        ELSE fields[CHOOSE i \in hits : \A j \in hits : j <= i].id

\* field_dict.get(id) on the mapping built from the notes
FieldDictGet(notes, id) ==
    LET hits == {i \in 1..Len(notes) : notes[i].field_id = id}
    IN  IF hits = {} THEN Null
        ELSE notes[CHOOSE i \in hits : \A j \in hits : j <= i].value

\* str.lower() on a format description
Lower(desc) ==
    CASE desc = "LP" -> "lp"
      [] desc = "Album" -> "album"
      [] desc = "Reissue" -> "reissue"
      [] desc = "Limited Edition Repress" -> "limited edition repress"
      [] OTHER -> desc

\* kw in d, for the keywords the flags are computed from
Contains(desc, kw) ==
    \/ desc = kw
    \/ desc = "limited edition repress" /\ kw \in {"limited edition", "repress"}

\* the descriptions of all formats, in order (fmt_desc.extend)
RECURSIVE Descriptions(_)
Descriptions(formats) ==
    IF formats = <<>> THEN <<>>
    ELSE Head(formats).descriptions \o Descriptions(Tail(formats))

\* format_desc of collection_update.py: the descriptions of each format,
\* then its free text when it has one
RECURSIVE DescriptionsAndText(_)
DescriptionsAndText(formats) ==
    IF formats = <<>> THEN <<>>
    ELSE Head(formats).descriptions
         \o (IF Head(formats).text # "" THEN <<Head(formats).text>> ELSE <<>>)
         \o DescriptionsAndText(Tail(formats))

\* A flag cell of the frame: a Python bool, or None.
Bool(b) == IF b THEN "True" ELSE "False"
NoFlag == "None"

\* field_dict.get(name) with a text key: the keys of field_dict are the
\* numeric field identifiers of the notes, so no text is among them.
FieldDictGetName(notes, name) == NoFlag

\* is_reissue, is_limited, is_original of fetch_all_releases
FullFetchFlags(item) ==
    LET low == [i \in 1..Len(Descriptions(item.formats)) |->
                   Lower(Descriptions(item.formats)[i])]
        reissue == \E i \in 1..Len(low) :
                      Contains(low[i], "repress") \/ Contains(low[i], "reissue")
    IN  [is_limited |-> Bool(\E i \in 1..Len(low) :
                                Contains(low[i], "limited edition")),
         is_reissue |-> Bool(reissue),
         is_original |-> Bool(~reissue)]

\* the three flags of a record of incremental_update
Flags(item, notes) ==
    [is_limited |-> FieldDictGetName(notes, "is_limited"),
     is_reissue |-> FieldDictGetName(notes, "is_reissue"),
     is_original |-> FieldDictGetName(notes, "is_original")]

MakeRecord(inst_id, item, notes, pid, sid, bid) ==
    [instance_id |-> inst_id,
     \* ", ".join(format_desc), kept as the list; None is the empty list
     format_descriptions |-> DescriptionsAndText(item.formats),
     PricePaid |-> FieldDictGet(notes, pid),
     Seller |-> FieldDictGet(notes, sid),
     BandCountry |-> FieldDictGet(notes, bid),
     is_limited |-> Flags(item, notes).is_limited,
     is_reissue |-> Flags(item, notes).is_reissue,
     is_original |-> Flags(item, notes).is_original]

\* get_instance_fields when safe_request raised
FailedInstanceFields == <<>>

\* (the header ignored)
RetryDelayFixed(ra) == DefaultRetryAfter

\* int(resp.headers.get("Retry-After", 60))
RetryDelay(ra) == IF ra = NoHeader THEN DefaultRetryAfter ELSE ra

\* ------------------------- incremental_update of collection_dump.py
\* x == y in Python on two instance-id cells: a number equals a number of
\* the same value, a text equals the same text, a number never equals a text
PyEq(a, b) ==
    /\ a.v = b.v
    /\ \/ a.k \in {"int", "float"} /\ b.k \in {"int", "float"}
       \/ a.k = b.k /\ a.k \in {"str", "str.0"}

\* df_cache['instance_id'] raises KeyError: the frame has rows and no such
\* column
DumpKeyError(df) ==
    df # <<>> /\ \A i \in 1..Len(df) : df[i].instance_id.k = "nan"

\* set(df_cache['instance_id']) if not df_cache.empty else set()
KnownInstancesDump(df) ==
    IF df = <<>> THEN {} ELSE { df[i].instance_id : i \in 1..Len(df) }

\* inst in known_instances
IsKnownDump(inst, known) == \E c \in known : PyEq(inst, c)

\* rec of this incremental_update: the identifiers 4, 5, 6 as written; the
\* columns it does not set are None / NaN in the merged frame
DumpRecord(inst, notes) ==
    [instance_id |-> inst,
     format_descriptions |-> <<>>,
     PricePaid |-> FieldDictGet(notes, DefaultPriceId),
     Seller |-> FieldDictGet(notes, DefaultSellerId),
     BandCountry |-> FieldDictGet(notes, DefaultBandCountryId),
     is_limited |-> NoFlag, is_reissue |-> NoFlag, is_original |-> NoFlag]

\* the locals before any call
DumpIdle ==
    [pc |-> "idle", page |-> 1, idx |-> 0, stop |-> 0, releases |-> <<>>,
     known_instances |-> {}, new_records |-> <<>>, listed |-> <<>>,
     df_cache |-> <<>>, saved |-> FALSE]

\* ------------------------------------------------ the dashboard's writer
\* field_name_to_id.get(name) or default
FieldMapGetOr(fields, name, default) ==
    LET id == FieldMapGet(fields, name, Null)
    IN  IF id = Null THEN default ELSE id

\* rec of fetch_all_releases: it has no "instance_id" key
FullFetchRecord(item, notes, pid, sid, bid) ==
    [instance_id |-> NanId,
     format_descriptions |-> Descriptions(item.formats),
     PricePaid |-> FieldDictGet(notes, pid),
     Seller |-> FieldDictGet(notes, sid),
     BandCountry |-> FieldDictGet(notes, bid),
     is_limited |-> FullFetchFlags(item).is_limited,
     is_reissue |-> FullFetchFlags(item).is_reissue,
     is_original |-> FullFetchFlags(item).is_original]

\* fetch_all_releases with every request answered: a record per item of the
\* collection, in the order of the listing
fetch_all_releases(f, fl) ==
    [i \in 1..Len(f) |->
        FullFetchRecord(Item(f[i]), RemoteNotes,
                        FieldMapGetOr(fl, "PricePaid", DefaultPriceId),
                        FieldMapGetOr(fl, "Seller", DefaultSellerId),
                        FieldMapGetOr(fl, "BandCountry", DefaultBandCountryId))]

\* ------------------------------------------------------------- Init
\* No run yet, whatever the files are.
Idle ==
    /\ feed = <<>>
    /\ pc = "idle"
    /\ per_page = 1 /\ max_pages = 1 /\ page = 1
    /\ df_cache = <<>> /\ known_instances = {} /\ new_records = <<>>
    /\ releases = <<>> /\ idx = 0
    /\ price_id = DefaultPriceId /\ seller_id = DefaultSellerId
    /\ bandcountry_id = DefaultBandCountryId
    /\ req = NoReq /\ fresh = TRUE /\ http = <<>> /\ resps = <<>>
    /\ ret = EmptyJson
    /\ grown = FALSE /\ parquet0 = parquet /\ csv0 = csv
    /\ loaded = <<>> /\ listed = <<>> /\ fetched = <<>>
    /\ wrote = "none" /\ stop = 0
    /\ prev = FALSE
    /\ runs = 0
    /\ faults = 0
    /\ dump = DumpIdle

Start ==
    /\ parquet \in {AbsentFile, CorruptFile}
    /\ csv = AbsentFile
    /\ Idle

Init ==
    /\ Start
    /\ cap = [feed |-> MaxFeed, runs |-> MaxRuns, faults |-> MaxFaults]

\* The owner adds a copy to the collection: it becomes the newest item.
RemoteAdd ==
    /\ Len(feed) < cap.feed
    /\ feed' = <<Len(feed) + 1>> \o feed
    /\ grown' = TRUE
    /\ UNCHANGED <<parquet, csv, pc, per_page, max_pages, page, df_cache,
                   known_instances, new_records, releases, idx, price_id,
                   seller_id, bandcountry_id, req, fresh, http, resps, ret,
                   parquet0, csv0, loaded, listed, fetched, wrote,
                   stop, prev, runs, faults, cap, dump>>

\* incremental_update, from its call to its first request (lines 30-40).
Call(pp, mp) ==
    /\ pc \in {"idle", "done", "raised"}
    /\ runs < cap.runs
    /\ runs' = runs + 1
    /\ per_page' = pp /\ max_pages' = mp
    /\ df_cache' = load_cache(parquet, csv)
    /\ loaded' = df_cache'
    /\ known_instances' = KnownInstances(df_cache')
    /\ price_id' = DefaultPriceId /\ seller_id' = DefaultSellerId
    /\ bandcountry_id' = DefaultBandCountryId
    /\ new_records' = <<>> /\ page' = 1 /\ releases' = <<>> /\ idx' = 0
    /\ pc' = IF LoadRaises(parquet, csv) THEN "raised" ELSE "fields"
    /\ req' = IF LoadRaises(parquet, csv) THEN NoReq ELSE FieldsReq
    /\ fresh' = TRUE
    /\ grown' = FALSE /\ parquet0' = parquet /\ csv0' = csv
    /\ listed' = <<>> /\ fetched' = <<>> /\ wrote' = "none" /\ stop' = 0
    /\ prev' = (pc = "done" /\ ~grown)
    /\ http' = <<>> /\ resps' = <<>> /\ ret' = EmptyJson
    /\ UNCHANGED <<feed, parquet, csv, faults, cap>>

StartRun(pp, mp) == Call(pp, mp) /\ UNCHANGED dump

\* ------------------------------------------------------- safe_request
\* The log of the call in progress, with the requests.get being answered.
LogGet == (IF fresh THEN <<>> ELSE http) \o <<[t |-> "get", r |-> req, d |-> 0]>>
RespsSoFar == IF fresh THEN <<>> ELSE resps

\* time.sleep(reset_after) before the retry
SleepEvents(ra) == <<[t |-> "sleep", r |-> NoReq, d |-> RetryDelay(ra)]>>

\* return resp.json()
SafeRequestReturn(resp) == resp.json

Received(status, ra, json) ==
    resps' = RespsSoFar \o <<[status |-> status, ra |-> ra, json |-> json]>>

\* (a 429 answer raised to the caller, as raise_for_status would)
RateLimitedSurfaced(ra) ==
    /\ pc \in {"fields", "list", "inst"}
    /\ Len(RespsSoFar) < MaxRetries
    /\ faults < cap.faults
    /\ faults' = faults + 1
    /\ http' = LogGet
    /\ Received(429, ra, EmptyJson)
    /\ fresh' = TRUE
    /\ pc' = "raised"
    /\ UNCHANGED <<feed, parquet, csv, per_page, max_pages, page, df_cache,
                   known_instances, new_records, releases, idx, price_id,
                   seller_id, bandcountry_id, req, ret, grown, parquet0, csv0,
                   loaded, listed, fetched, wrote, stop, prev, runs, cap, dump>>

\* A 429 answer to whichever request is pending: sleep, then send it again.
RateLimited(ra) ==
    /\ pc \in {"fields", "list", "inst"}
    /\ Len(RespsSoFar) < MaxRetries
    /\ faults < cap.faults
    /\ faults' = faults + 1
    /\ http' = LogGet \o SleepEvents(ra)
    /\ Received(429, ra, EmptyJson)
    /\ fresh' = FALSE
    /\ UNCHANGED <<feed, parquet, csv, pc, per_page, max_pages, page, df_cache,
                   known_instances, new_records, releases, idx, price_id,
                   seller_id, bandcountry_id, req, ret, grown, parquet0, csv0,
                   loaded, listed, fetched, wrote, stop, prev, runs, cap, dump>>

\* safe_request returns the body of a 2xx answer
Returned(json) ==
    /\ http' = LogGet
    /\ Received(200, NoHeader, json)
    /\ ret' = SafeRequestReturn([status |-> 200, json |-> json])
    /\ fresh' = TRUE

\* raise_for_status on an answer that is neither 2xx nor 429
Raised ==
    /\ http' = LogGet
    /\ Received(500, NoHeader, EmptyJson)
    /\ ret' = ret
    /\ fresh' = TRUE

\* ------------------------------------------- the loop of the run
\* while page <= max_pages: the next listing call, or the end of the loop
EnterPage(pg, mp, pp) ==
    IF LoopCond(pg, mp)
    THEN [pc |-> "list", page |-> pg, idx |-> 0, stop |-> 0,
          req |-> ListReq(pp, pg)]
    ELSE [pc |-> "done", page |-> pg, idx |-> 0, stop |-> 0, req |-> NoReq]

\* (a known instance treated like a new one: the iteration goes on)
IterateNoStop(rel, i, pg, mp, pp, known) ==
    IF i > Len(rel) THEN EnterPage(pg + 1, mp, pp)
    ELSE [pc |-> "inst", page |-> pg, idx |-> i, stop |-> 0,
          req |-> InstReq(rel[i].instance_id.v)]

\* for item in releases, at position i: return at a known instance, ask for
\* the fields of a new one, or go to the next page after the last item.
Iterate(rel, i, pg, mp, pp, known) ==
    IF i > Len(rel) THEN EnterPage(pg + 1, mp, pp)
    ELSE IF IsKnown(Str(rel[i].instance_id), known)
    THEN [pc |-> "done", page |-> pg, idx |-> i,
          stop |-> rel[i].instance_id.v, req |-> NoReq]
    ELSE [pc |-> "inst", page |-> pg, idx |-> i, stop |-> 0,
          req |-> InstReq(rel[i].instance_id.v)]

\* (the cache saved at every return, new records or not)
MergeAndSaveAlways(recs, cache, ok, pq, cs) ==
    LET m == Concat(recs, cache)
        s == save_cache(m, ok, pq, cs)
    IN  [df |-> m, parquet |-> s.parquet, csv |-> s.csv, wrote |-> s.wrote]

\* if new_records: concat, save_cache; the frame returned and the files
MergeAndSave(recs, cache, ok, pq, cs) ==
    IF recs # <<>>
    THEN LET m == Concat(recs, cache)
             s == save_cache(m, ok, pq, cs)
         IN  [df |-> m, parquet |-> s.parquet, csv |-> s.csv, wrote |-> s.wrote]
    ELSE [df |-> cache, parquet |-> pq, csv |-> cs, wrote |-> "none"]

\* The control record nx becomes the state; a run that ends merges and saves.
\* failed counts the error answer that led here, for the bound on faults.
Control(nx, recs, ok, failed) ==
    /\ faults' = faults + failed
                  + (IF nx.pc = "done" /\ recs # <<>> /\ ~ok THEN 1 ELSE 0)
    /\ faults' <= cap.faults
    /\ pc' = nx.pc /\ page' = nx.page /\ idx' = nx.idx /\ stop' = nx.stop
    /\ req' = nx.req
    /\ new_records' = recs
    /\ listed' = IF nx.pc = "list" THEN Append(listed, nx.page) ELSE listed
    /\ IF nx.pc = "done"
       THEN LET m == MergeAndSave(recs, df_cache, ok, parquet, csv)
            IN  /\ df_cache' = m.df /\ parquet' = m.parquet /\ csv' = m.csv
                /\ wrote' = m.wrote
       ELSE UNCHANGED <<df_cache, parquet, csv, wrote>>

\* get_custom_fields_map answered: the identifiers are looked up by name.
FieldsResponse(fl) ==
    /\ pc = "fields"
    /\ Returned([EmptyJson EXCEPT !.fields = fl])
    /\ price_id' = FieldMapGet(fl, "PricePaid", DefaultPriceId)
    /\ seller_id' = FieldMapGet(fl, "Seller", DefaultSellerId)
    /\ bandcountry_id' = FieldMapGet(fl, "BandCountry", DefaultBandCountryId)
    /\ Control(EnterPage(1, max_pages, per_page), new_records, TRUE, 0)
    /\ UNCHANGED <<feed, per_page, max_pages, known_instances, releases,
                   grown, parquet0, csv0, loaded, fetched, prev, runs, cap, dump>>

\* get_custom_fields_map failed: it returns {} and the defaults stay.
FieldsError ==
    /\ pc = "fields"
    /\ Raised
    /\ price_id' = FieldMapGet(<<>>, "PricePaid", DefaultPriceId)
    /\ seller_id' = FieldMapGet(<<>>, "Seller", DefaultSellerId)
    /\ bandcountry_id' = FieldMapGet(<<>>, "BandCountry", DefaultBandCountryId)
    /\ Control(EnterPage(1, max_pages, per_page), new_records, TRUE, 1)
    /\ UNCHANGED <<feed, per_page, max_pages, known_instances, releases,
                   grown, parquet0, csv0, loaded, fetched, prev, runs, cap, dump>>

\* A listing page arrives: an empty page ends the loop, otherwise its items
\* are iterated up to the first request the iteration needs.
ListResponse(ok) ==
    /\ pc = "list"
    /\ LET rel == Page(feed, per_page, page)
       IN  /\ Returned([EmptyJson EXCEPT !.releases = rel])
           /\ releases' = rel
           /\ fetched' = fetched \o [i \in 1..Len(rel) |-> rel[i].instance_id.v]
           /\ IF rel = <<>>
              THEN Control([pc |-> "done", page |-> page, idx |-> 0,
                            stop |-> 0, req |-> NoReq], new_records, ok, 0)
              ELSE Control(Iterate(rel, 1, page, max_pages, per_page,
                                   known_instances), new_records, ok, 0)
    /\ UNCHANGED <<feed, per_page, max_pages, known_instances, price_id,
                   seller_id, bandcountry_id, grown, parquet0, csv0, loaded,
                   prev, runs, cap, dump>>

\* (the records accumulated so far saved before the error leaves the run)
ListErrorSaving ==
    /\ pc = "list"
    /\ Raised
    /\ faults < cap.faults
    /\ faults' = faults + 1
    /\ pc' = "raised"
    /\ LET m == MergeAndSave(new_records, df_cache, TRUE, parquet, csv)
       IN  parquet' = m.parquet /\ csv' = m.csv
    /\ UNCHANGED <<feed, per_page, max_pages, page, df_cache,
                   known_instances, new_records, releases, idx, price_id,
                   seller_id, bandcountry_id, req, grown, parquet0, csv0,
                   loaded, listed, fetched, wrote, stop, prev, runs, cap, dump>>

\* The listing request fails: the error leaves incremental_update.
ListError ==
    /\ pc = "list"
    /\ Raised
    /\ faults < cap.faults
    /\ faults' = faults + 1
    /\ pc' = "raised"
    /\ UNCHANGED <<feed, parquet, csv, per_page, max_pages, page, df_cache,
                   known_instances, new_records, releases, idx, price_id,
                   seller_id, bandcountry_id, req, grown, parquet0, csv0,
                   loaded, listed, fetched, wrote, stop, prev, runs, cap, dump>>

\* The record of the item at idx is appended and the iteration goes on.
\* (inst_id is the text of the id, never empty, so get_instance_fields
\* always sends its request.)
AddRecord(notes, ok, failed) ==
    LET rec == MakeRecord(Str(releases[idx].instance_id), releases[idx],
                          notes, price_id, seller_id, bandcountry_id)
    IN  Control(Iterate(releases, idx + 1, page, max_pages, per_page,
                        known_instances), Append(new_records, rec), ok,
                failed)

\* get_instance_fields answered with the notes of the instance.
InstResponse(ok) ==
    /\ pc = "inst"
    /\ Returned([EmptyJson EXCEPT !.notes = RemoteNotes])
    /\ AddRecord(RemoteNotes, ok, 0)
    /\ UNCHANGED <<feed, per_page, max_pages, known_instances, releases,
                   price_id, seller_id, bandcountry_id, grown, parquet0, csv0,
                   loaded, fetched, prev, runs, cap, dump>>

\* (the failure of the instance request leaves the run, as a listing's does)
InstErrorRaises(ok) ==
    /\ pc = "inst"
    /\ Raised
    /\ faults < cap.faults
    /\ faults' = faults + 1
    /\ pc' = "raised"
    /\ UNCHANGED <<feed, parquet, csv, per_page, max_pages, page, df_cache,
                   known_instances, new_records, releases, idx, price_id,
                   seller_id, bandcountry_id, req, grown, parquet0, csv0,
                   loaded, listed, fetched, wrote, stop, prev, runs, cap, dump>>

\* get_instance_fields failed: it returns [] and the record has no fields.
InstError(ok) ==
    /\ pc = "inst"
    /\ Raised
    /\ AddRecord(FailedInstanceFields, ok, 1)
    /\ UNCHANGED <<feed, per_page, max_pages, known_instances, releases,
                   price_id, seller_id, bandcountry_id, grown, parquet0, csv0,
                   loaded, fetched, prev, runs, cap, dump>>

Next ==
    \/ RemoteAdd
    \/ \E pp \in 1..MaxPerPage, mp \in 1..MaxPages : StartRun(pp, mp)
    \/ \E ra \in RetryAfterValues : RateLimited(ra)
    \/ \E fl \in FieldLists : FieldsResponse(fl)
    \/ FieldsError
    \/ \E ok \in BOOLEAN : ListResponse(ok)
    \/ ListError
    \/ \E ok \in BOOLEAN : InstResponse(ok)
    \/ \E ok \in BOOLEAN : InstError(ok)

Spec == Init /\ [][Next]_vars

\* One request followed through its retries: a short feed, a single run.
InitRetry ==
    /\ Start
    /\ cap = [feed |-> 1, runs |-> 1, faults |-> MaxRetries]

SpecRetry == InitRetry /\ [][Next]_vars

\* The server answers the pending request with something else than 429.
Answered ==
    \/ \E fl \in FieldLists : FieldsResponse(fl)
    \/ FieldsError
    \/ \E ok \in BOOLEAN : ListResponse(ok)
    \/ ListError
    \/ \E ok \in BOOLEAN : InstResponse(ok)
    \/ \E ok \in BOOLEAN : InstError(ok)

\* safe_request blocks in requests.get and time.sleep only: once the server
\* is willing to answer with something else than 429, the call goes on.
SpecRetryFair == SpecRetry /\ WF_vars(Answered)

\* ------------- incremental_update of collection_dump.py, step by step
\* for item in releases, at position i
DumpIterate(rel, i, pg, mp, pp, known) ==
    IF i > Len(rel) THEN EnterPage(pg + 1, mp, pp)
    ELSE IF IsKnownDump(rel[i].instance_id, known)
    THEN [pc |-> "done", page |-> pg, idx |-> i,
          stop |-> rel[i].instance_id.v, req |-> NoReq]
    ELSE [pc |-> "inst", page |-> pg, idx |-> i, stop |-> 0,
          req |-> InstReq(rel[i].instance_id.v)]

\* from the call to the first listing request, or to the KeyError
DumpCall(df, pp, mp) ==
    IF DumpKeyError(df)
    THEN [DumpIdle EXCEPT !.pc = "raised", !.df_cache = df]
    ELSE [DumpIdle EXCEPT !.pc = EnterPage(1, mp, pp).pc,
                          !.listed = IF EnterPage(1, mp, pp).pc = "list"
                                     THEN <<1>> ELSE <<>>,
                          !.df_cache = df,
                          !.known_instances = KnownInstancesDump(df)]

\* The control record nx becomes the locals; a run that ends merges and
\* saves when it has new records (its files are its own: only the frame it
\* returns and whether it saved are kept).
DumpControl(nx, recs, rel) ==
    dump' = [dump EXCEPT !.pc = nx.pc, !.page = nx.page, !.idx = nx.idx,
                   !.stop = nx.stop, !.releases = rel, !.new_records = recs,
                   !.listed = IF nx.pc = "list" THEN Append(@, nx.page)
                              ELSE @,
                   !.df_cache = IF nx.pc = "done" /\ recs # <<>>
                                THEN Concat(recs, @) ELSE @,
                   !.saved = (nx.pc = "done" /\ recs # <<>>)]

\* Both implementations are called with the same arguments, on the same
\* files and the same remote collection.
StartBoth(pp, mp) ==
    /\ dump.pc \in {"idle", "done", "raised"}
    /\ Call(pp, mp)
    /\ dump' = IF LoadRaises(parquet, csv) THEN [DumpIdle EXCEPT !.pc = "raised"]
            ELSE DumpCall(load_cache(parquet, csv), pp, mp)

\* everything but the locals of that run and the count of faults
others ==
    <<feed, parquet, csv, pc, per_page, max_pages, page, df_cache,
      known_instances, new_records, releases, idx, price_id, seller_id,
      bandcountry_id, req, fresh, http, resps, ret, grown, parquet0, csv0,
      loaded, listed, fetched, wrote, stop, prev, runs, cap>>

\* A listing page arrives (safe_request's retries are inside the step).
DumpListResponse ==
    /\ dump.pc = "list"
    /\ LET rel == Page(feed, per_page, dump.page)
       IN  IF rel = <<>>
           THEN DumpControl([pc |-> "done", page |-> dump.page, idx |-> 0,
                             stop |-> 0, req |-> NoReq], dump.new_records, rel)
           ELSE DumpControl(DumpIterate(rel, 1, dump.page, max_pages, per_page,
                                        dump.known_instances),
                            dump.new_records, rel)
    /\ UNCHANGED <<others, faults>>

\* The listing request fails: the error leaves incremental_update.
DumpListError ==
    /\ dump.pc = "list"
    /\ faults < cap.faults
    /\ faults' = faults + 1
    /\ dump' = [dump EXCEPT !.pc = "raised"]
    /\ UNCHANGED others

\* The record of the item at idx is appended and the iteration goes on.
DumpAddRecord(notes) ==
    DumpControl(DumpIterate(dump.releases, dump.idx + 1, dump.page, max_pages,
                            per_page, dump.known_instances),
                Append(dump.new_records,
                       DumpRecord(dump.releases[dump.idx].instance_id, notes)),
                dump.releases)

\* get_instance_fields answered with the notes of the instance.
DumpInstResponse ==
    /\ dump.pc = "inst"
    /\ DumpAddRecord(RemoteNotes)
    /\ UNCHANGED <<others, faults>>

\* get_instance_fields failed: it returns [].
DumpInstError ==
    /\ dump.pc = "inst"
    /\ faults < cap.faults
    /\ faults' = faults + 1
    /\ DumpAddRecord(FailedInstanceFields)
    /\ UNCHANGED others

\* load_collection of the dashboard, when there is no cache file
DashboardLoad(fl) ==
    /\ parquet.state = "absent"
    /\ parquet' = [state |-> "ok", rows |-> fetch_all_releases(feed, fl)]
    /\ UNCHANGED <<feed, csv, pc, per_page, max_pages, page, df_cache,
                   known_instances, new_records, releases, idx, price_id,
                   seller_id, bandcountry_id, req, fresh, http, resps, ret,
                   grown, parquet0, csv0, loaded, listed, fetched, wrote,
                   stop, prev, runs, faults, cap, dump>>

\* the button "Update Collection from API" of the dashboard
DashboardRefresh(fl) ==
    /\ parquet' = [state |-> "ok", rows |-> fetch_all_releases(feed, fl)]
    /\ UNCHANGED <<feed, csv, pc, per_page, max_pages, page, df_cache,
                   known_instances, new_records, releases, idx, price_id,
                   seller_id, bandcountry_id, req, fresh, http, resps, ret,
                   grown, parquet0, csv0, loaded, listed, fetched, wrote,
                   stop, prev, runs, faults, cap, dump>>

\* The synchronizer and the dashboard on the same cache files, which may
\* both be unreadable at the start.
InitFull ==
    /\ parquet \in {AbsentFile, CorruptFile}
    /\ csv \in {AbsentFile, CorruptFile}
    /\ Idle
    /\ cap = [feed |-> 2, runs |-> MaxRuns, faults |-> MaxFaults]

NextFull ==
    \/ RemoteAdd
    \/ \E pp \in 1..MaxPerPage, mp \in 1..MaxPages : StartBoth(pp, mp)
    \/ \E ra \in RetryAfterValues : RateLimited(ra)
    \/ \E fl \in FieldLists : FieldsResponse(fl)
    \/ FieldsError
    \/ \E ok \in BOOLEAN : ListResponse(ok)
    \/ ListError
    \/ \E ok \in BOOLEAN : InstResponse(ok)
    \/ \E ok \in BOOLEAN : InstError(ok)
    \/ DumpListResponse
    \/ DumpListError
    \/ DumpInstResponse
    \/ DumpInstError
    \/ \E fl \in FieldLists : DashboardLoad(fl)
    \/ \E fl \in FieldLists : DashboardRefresh(fl)

SpecFull == InitFull /\ [][NextFull]_vars

\* ------------------------------------------------------------ claims
Last(s) == s[Len(s)]
Ids(df) == [i \in 1..Len(df) |-> df[i].instance_id.v]
NewIds == Ids(new_records)
InCache(n, df) == \E i \in 1..Len(df) : df[i].instance_id.v = n
DistinctIds(df) ==
    \A i, j \in 1..Len(df) : i # j => df[i].instance_id.v # df[j].instance_id.v
Persisted == IF wrote = "parquet" THEN parquet.rows ELSE csv.rows
FeedStatic == ~grown

\* the latest safe_request call has ended, with this status, for this endpoint
CallEnded(status, ep) ==
    /\ fresh /\ resps # <<>> /\ Last(resps).status = status
    /\ Last(http).r.ep = ep

\* the number of leading feed items whose instance_id is not in the cache
PrefixLen(f, df) ==
    CHOOSE n \in 0..Len(f) :
        /\ \A i \in 1..n : ~InCache(f[i], df)
        /\ n = Len(f) \/ InCache(f[n + 1], df)

\* C1 (as claimed): a completed run whose loaded cache had pairwise distinct
\* instance_ids returns and persists a merged cache with pairwise distinct
\* instance_ids, also when the feed changed between two page requests.
C1_DedupInvariant ==
    (pc = "done" /\ DistinctIds(loaded)) =>
        /\ DistinctIds(df_cache)
        /\ wrote # "none" => DistinctIds(Persisted)

\* C2 (as claimed): on a feed that does not change during the run, the run
\* adds exactly the feed items that precede the first item already in the
\* loaded cache, whatever per_page and max_pages are.
C2_ExactPrefix ==
    (pc = "done" /\ FeedStatic) =>
        NewIds = SubSeq(feed, 1, PrefixLen(feed, loaded))

\* C2 (amended): on a feed that does not change during the run, a run that
\* returns adds exactly the first min(n, per_page * max_pages) feed items,
\* n being the number of items that precede the first one in the loaded cache.
C2_PrefixUpToPageBound ==
    (pc = "done" /\ FeedStatic) =>
        NewIds = SubSeq(feed, 1, Min(PrefixLen(feed, loaded),
                                     per_page * max_pages))

C2_Witness ==
    /\ pc = "done" /\ FeedStatic /\ loaded # <<>> /\ stop # 0
    /\ PrefixLen(feed, loaded) = 2 /\ Len(new_records) = 2

\* C3 (as claimed): a run that follows a run that returned, with no item
\* added to the remote collection since that first run started, reports no
\* new record and leaves the cache files as the first run left them.
C3_Idempotence ==
    (pc = "done" /\ prev /\ FeedStatic) =>
        new_records = <<>> /\ parquet = parquet0 /\ csv = csv0

\* C4: a safe_request call answered by k 429 responses and then a 2xx has
\* sent k+1 requests, all the same, slept once after each 429 for that
\* response's Retry-After (60 without the header), and returned the 2xx body.
C4_RetryOrdering ==
    (fresh /\ resps # <<>> /\ Last(resps).status = 200) =>
        LET k == Len(resps) - 1
        IN  /\ \A i \in 1..k : resps[i].status = 429
            /\ Len(http) = 2 * k + 1
            /\ \A i \in 1..(k + 1) :
                  /\ http[2 * i - 1].t = "get"
                  /\ http[2 * i - 1].r = http[1].r
                  /\ http[1].r.ep # "none"
            /\ \A i \in 1..k :
                  /\ http[2 * i].t = "sleep"
                  /\ http[2 * i].d = (IF resps[i].ra = NoHeader THEN 60
                                      ELSE resps[i].ra)
            /\ ret = resps[k + 1].json

C4_Witness ==
    /\ fresh /\ Len(resps) = 3 /\ Last(resps).status = 200
    /\ resps[1].ra = 2 /\ resps[2].ra = 1
    /\ ret.releases # <<>>

\* C5: when a listing request of a run is answered by an error, the run
\* ends raised and both cache files are as they were when the run started.
C5_FatalListingError ==
    CallEnded(500, "releases") =>
        pc = "raised" /\ parquet = parquet0 /\ csv = csv0

C5_Witness ==
    /\ CallEnded(500, "releases") /\ pc = "raised" /\ new_records # <<>>
    /\ parquet0.state = "ok"

\* C6: when the instance request for a new item fails, the run is not
\* raised and the record of that item is added with PricePaid, Seller and
\* BandCountry null.
C6_GracefulDegradation ==
    CallEnded(500, "instance") =>
        /\ pc \in {"inst", "list", "done"}
        /\ new_records # <<>>
        /\ Last(new_records).instance_id = StrId(Last(http).r.inst)
        /\ Last(new_records).PricePaid = Null
        /\ Last(new_records).Seller = Null
        /\ Last(new_records).BandCountry = Null

C6_Witness ==
    /\ CallEnded(500, "instance") /\ pc = "inst" /\ Len(new_records) = 1
    /\ price_id # DefaultPriceId

\* C7 (as claimed): when a run stops at a feed item that is in the cache,
\* every older feed item is in the loaded cache too, so that the cache the
\* run returns holds every item of a remote collection that did not change
\* during the run.
C7_StopInvariant ==
    (pc = "done" /\ stop # 0) =>
        /\ \A i, j \in 1..Len(feed) :
              (feed[i] = stop /\ j > i) => InCache(feed[j], loaded)
        /\ FeedStatic => \A i \in 1..Len(feed) : InCache(feed[i], df_cache)

\* C8: the frame a run returns, and the file it writes, is the new records
\* in the order met followed by the rows load_cache returned, unchanged.
C8_PurePrepend ==
    pc = "done" =>
        /\ df_cache = new_records \o loaded
        /\ wrote # "none" => Persisted = new_records \o loaded
        /\ NewIds = SubSeq(fetched, 1, Len(new_records))

C8_Witness ==
    /\ pc = "done" /\ Len(new_records) = 2 /\ loaded # <<>>
    /\ wrote = "parquet"

\* C9: with no cache file, a completed run has asked for pages until one
\* came back empty or max_pages were fetched, every item received is a new
\* record, and the records returned are the rows returned and written.
C9_CacheAbsent ==
    (pc = "done" /\ parquet0.state = "absent") =>
        /\ NewIds = fetched
        /\ df_cache = new_records
        /\ new_records # <<>> => (wrote # "none" /\ Persisted = new_records)
        /\ \/ Len(listed) = max_pages
           \/ CallEnded(200, "releases") /\ ret.releases = <<>>

C9_Witness ==
    /\ pc = "done" /\ parquet0.state = "absent" /\ Len(new_records) = 2
    /\ Len(listed) = max_pages /\ Len(feed) = 3 /\ wrote = "parquet"

\* C10: the calls of fetch_latest_releases of a run are for pages 1, 2, 3,
\* ... in this order, each once, and there are at most max_pages of them.
C10_PageBound ==
    /\ listed = [i \in 1..Len(listed) |-> i]
    /\ Len(listed) <= max_pages

C10_Witness ==
    /\ pc = "done" /\ max_pages = 2 /\ listed = <<1, 2>>
    /\ Len(feed) > per_page * max_pages

\* C11 (as claimed): every row of a cache file, whoever wrote the file (the
\* dashboard's full fetch or a synchronizer run), carries an instance_id,
\* and a synchronizer run that loads the file has it among its known
\* instances.
C11_RowsCarryInstanceId ==
    \A file \in {parquet, csv} :
        file.state = "ok" =>
            \A i \in 1..Len(file.rows) :
                /\ file.rows[i].instance_id.k # "nan"
                /\ IsKnown(Str(file.rows[i].instance_id),
                           KnownInstances(file.rows))

\* the field-definition list of the account, as the server returns it
AccountFields == CHOOSE fl \in FieldLists : TRUE

\* the value a record must hold under a custom field: the note under the
\* identifier the account lists for the name (the static one when the name
\* is not listed or the list could not be fetched), or null when the
\* instance request failed
Resolved(name, static, listFailed) ==
    FieldDictGet(RemoteNotes,
                 IF listFailed THEN static
                 ELSE FieldMapGet(AccountFields, name, static))

\* C12 (as claimed): in both implementations of incremental_update, the
\* identifiers are those listed by name in the account's field-definition
\* list, 4, 5, 6 only for a name that is not listed or when the fetch of the
\* list failed, and every record of the run reads its three values under
\* them.
C12_FieldIdResolution ==
    /\ CallEnded(200, "fields") =>
          /\ price_id = FieldMapGet(ret.fields, "PricePaid", 4)
          /\ seller_id = FieldMapGet(ret.fields, "Seller", 5)
          /\ bandcountry_id = FieldMapGet(ret.fields, "BandCountry", 6)
    /\ CallEnded(500, "fields") =>
          price_id = 4 /\ seller_id = 5 /\ bandcountry_id = 6
    /\ CallEnded(200, "instance") =>
          /\ Last(new_records).PricePaid = FieldDictGet(ret.notes, price_id)
          /\ Last(new_records).Seller = FieldDictGet(ret.notes, seller_id)
          /\ Last(new_records).BandCountry =
                FieldDictGet(ret.notes, bandcountry_id)
    /\ \A i \in 1..Len(dump.new_records) :
          /\ dump.new_records[i].PricePaid
                \in {Null, Resolved("PricePaid", 4, FALSE)}
          /\ dump.new_records[i].Seller \in {Null, Resolved("Seller", 5, FALSE)}
          /\ dump.new_records[i].BandCountry
                \in {Null, Resolved("BandCountry", 6, FALSE)}

\* some description contains one of the keywords, case-insensitively
HasKeyword(descs, kws) ==
    \E i \in 1..Len(descs) : \E kw \in kws : Contains(Lower(descs[i]), kw)

\* the three flags of a row are those the format descriptions call for
FlagsFollow(row, descs) ==
    /\ row.is_reissue = Bool(HasKeyword(descs, {"repress", "reissue"}))
    /\ row.is_limited = Bool(HasKeyword(descs, {"limited edition"}))
    /\ row.is_original = Bool(~HasKeyword(descs, {"repress", "reissue"}))

\* the rows of the cache file that a full fetch produced
FullFetchRows ==
    {parquet.rows[i] :
        i \in {j \in 1..Len(parquet.rows) :
                  parquet.rows[j].instance_id.k = "nan"}}

\* (the half of C13 about the full fetch)
C13_FullFetchFlags ==
    \A row \in FullFetchRows : FlagsFollow(row, row.format_descriptions)

\* C13 (as claimed): every item produced, by the full fetch and by the
\* synchronizer alike, has is_reissue true exactly when a format description
\* contains 'repress' or 'reissue', is_limited true exactly when one
\* contains 'limited edition', and is_original the negation of is_reissue.
C13_PressingFlags ==
    /\ \A row \in FullFetchRows : FlagsFollow(row, row.format_descriptions)
    /\ \A i \in 1..Len(new_records) :
          FlagsFollow(new_records[i],
                      Descriptions(Formats(new_records[i].instance_id.v)))

\* the run ended in load_cache: raised before any request was sent
LoadFailed == pc = "raised" /\ http = <<>>

\* what load_cache returned is as claimed: the rows of the cache file when
\* it is readable, nothing when there is no file or no readable one
LoadedAsClaimed ==
    /\ parquet0.state = "ok" => loaded = parquet0.rows
    /\ parquet0.state = "absent" => loaded = <<>>
    /\ (parquet0.state = "corrupt" /\ csv0.state # "ok") => loaded = <<>>

\* a run that loaded nothing and returned was a fetch from scratch, bounded
\* by max_pages
FromScratch ==
    (pc = "done" /\ loaded = <<>>) =>
        /\ NewIds = fetched
        /\ Len(listed) <= max_pages
        /\ \/ Len(listed) = max_pages
           \/ CallEnded(200, "releases") /\ ret.releases = <<>>

\* (C14 without its first part: when load_cache returns, it returns as
\* claimed and the run goes on as claimed)
C14_WhenLoadReturns == ~LoadFailed => (LoadedAsClaimed /\ FromScratch)

\* C14 (as claimed): load_cache never raises; it returns the rows of the
\* cache file when they can be read and an empty cache when there is no
\* file or the file is unreadable, and the run then proceeds as a fetch
\* from scratch bounded by max_pages.
C14_LoadNeverFatal ==
    runs > 0 => (~LoadFailed /\ LoadedAsClaimed /\ FromScratch)

\* C15: a run that saves writes the parquet file, or, when that write
\* fails, the csv file and only then: the file written holds the merged
\* rows, the other file is as it was, and the run returns normally.
C15_PersistFallback ==
    /\ (pc = "done" /\ new_records # <<>>) =>
          \/ /\ wrote = "parquet"
             /\ parquet = [state |-> "ok", rows |-> new_records \o loaded]
             /\ csv = csv0
          \/ /\ wrote = "csv"
             /\ csv = [state |-> "ok", rows |-> new_records \o loaded]
             /\ parquet = parquet0
    /\ wrote # "none" => pc = "done"

C15_Witness ==
    /\ pc = "done" /\ wrote = "csv" /\ parquet0.state = "ok"
    /\ loaded # <<>> /\ Len(new_records) = 1
    /\ csv.rows = new_records \o loaded /\ parquet.rows = loaded

\* the requests.get calls of the latest safe_request call
NumGets == Cardinality({i \in 1..Len(http) : http[i].t = "get"})

\* safe_request goes on after each 429 and ends at the first other answer
EndsAtFirstNon429 ==
    resps # <<>> =>
        /\ \A i \in 1..(Len(resps) - 1) : resps[i].status = 429
        /\ fresh <=> Last(resps).status # 429
        /\ NumGets = Len(resps)
        /\ (fresh /\ Last(resps).status = 200) => ret = Last(resps).json
        /\ ~fresh => pc \in {"fields", "list", "inst"}

\* C16: a safe_request call ends exactly at the first answer that is not a
\* 429 (n answers 429 make n+1 requests, for every n within the bound, and
\* the 429 is never what the caller gets), and a call that was rate-limited
\* ends, and the run with it, once the server answers with something else.
C16_RetryUntilAnswered ==
    /\ []EndsAtFirstNon429
    /\ (~fresh) ~> fresh
    /\ (pc \in {"fields", "list", "inst"}) ~> (pc \in {"done", "raised"})

C16_Witness ==
    /\ fresh /\ Len(resps) = MaxRetries + 1 /\ Last(resps).status = 200
    /\ \A i \in 1..MaxRetries : resps[i].status = 429
    /\ NumGets = MaxRetries + 1 /\ Last(http).r.ep = "instance"

\* the items received so far whose instance_id is in the known-instance set
KnownPositions ==
    {i \in 1..Len(fetched) : IsKnown(StrId(fetched[i]), known_instances)}

\* the position, among the items received, of the first known one (0: none)
FirstKnown ==
    IF KnownPositions = {} THEN 0
    ELSE CHOOSE i \in KnownPositions : \A j \in KnownPositions : i <= j

\* no instance request is for a known id; once a known item has come in,
\* the run asks only for the items before it and ends when it reaches it
StopsAtKnown ==
    /\ pc = "inst" => ~IsKnown(StrId(req.inst), known_instances)
    /\ \A i \in 1..Len(http) :
          http[i].r.ep = "instance" =>
              ~IsKnown(StrId(http[i].r.inst), known_instances)
    /\ FirstKnown > 0 =>
          /\ pc \in {"inst", "done"}
          /\ Len(new_records) < FirstKnown
          /\ pc = "inst" => Len(new_records) < FirstKnown - 1
          /\ pc = "done" => (Len(new_records) = FirstKnown - 1 /\ req = NoReq)

\* C17: once a run meets an item whose instance_id is known, it sends no
\* further listing request and no further instance request, and it never
\* sends an instance request for a known instance_id.
C17_StopOnFirstKnown ==
    [][ /\ StopsAtKnown'
        /\ (pc = "done" /\ runs' = runs) =>
              (http' = http /\ listed' = listed /\ pc' = "done") ]_vars

C17_Witness ==
    /\ pc = "done" /\ FirstKnown = 2 /\ Len(new_records) = 1
    /\ Len(fetched) = 2 /\ Len(feed) = 3 /\ page < max_pages
    /\ listed = <<1>>

\* C18: a run writes the cache files at most once, in the step that ends
\* it (after its last request), and only with at least one new record; a
\* run that ends without a new record has written nothing and returns the
\* loaded cache; a run that raised has written nothing.
C18_WriteDiscipline ==
    [][ /\ (parquet' # parquet \/ csv' # csv
             \/ (wrote' # wrote /\ wrote' # "none")) =>
              /\ pc # "done" /\ pc' = "done"
              /\ wrote = "none" /\ wrote' # "none"
              /\ new_records' # <<>>
        /\ (pc = "done" /\ runs' = runs) =>
              /\ http' = http /\ resps' = resps
              /\ parquet' = parquet /\ csv' = csv /\ wrote' = wrote
        /\ (pc' = "done" /\ new_records' = <<>>) =>
              /\ wrote' = "none" /\ parquet' = parquet0' /\ csv' = csv0'
              /\ df_cache' = loaded'
        /\ pc' = "raised" =>
              (wrote' = "none" /\ parquet' = parquet0' /\ csv' = csv0')
      ]_vars

C18_Witness ==
    /\ pc = "done" /\ new_records = <<>> /\ stop # 0 /\ wrote = "none"
    /\ Len(loaded) = 2 /\ df_cache = loaded /\ parquet = parquet0
    /\ http # <<>> /\ Last(http).r.ep = "releases"

\* C19 (as claimed): the rows a run persists through save_cache, by the
\* parquet write or by the csv fallback, are exactly the rows load_cache
\* returns at the start of the next run, whatever the two files were
\* before the run.
C19_SaveLoadRoundTrip ==
    (pc = "done" /\ wrote # "none") =>
        /\ ~LoadRaises(parquet, csv)
        /\ load_cache(parquet, csv) = Persisted

\* (the round trip through the parquet file alone)
C19_ParquetRoundTrip ==
    (pc = "done" /\ wrote = "parquet") =>
        load_cache(parquet, csv) = Persisted

\* both implementations have ended, with no fault and no item added since
\* they were called
BothEnded ==
    /\ runs > 0 /\ pc \in {"done", "raised"} /\ dump.pc \in {"done", "raised"}
    /\ FeedStatic /\ faults = 0

\* the same listing requests, the same stop item, the same instance_ids
\* added in the same order, the same outcome
SameRun ==
    /\ listed = dump.listed
    /\ stop = dump.stop
    /\ NewIds = Ids(dump.new_records)
    /\ pc = dump.pc

\* C20 (as claimed): called on the same loaded cache and the same remote
\* feed, incremental_update of collection_dump.py and incremental_update of
\* collection_update.py send the same listing requests, stop at the same
\* item, add the same instance_ids in the same order and end alike.
C20_ImplementationsAgree == BothEnded => SameRun

\* (the two agree when the loaded cache is empty)
C20_AgreeFromScratch == (BothEnded /\ loaded = <<>>) => SameRun

\* (the two agree when every loaded row has a number in instance_id, as
\* the rows of a csv that was read back have)
C20_AgreeOnNumbers ==
    (/\ runs > 0 /\ pc = "done" /\ dump.pc = "done" /\ FeedStatic
     /\ loaded # <<>>
     /\ \A i \in 1..Len(loaded) : loaded[i].instance_id.k = "int")
    => SameRun

====
